---- MODULE Spec2Model ----
(***************************************************************************)
(* njshell (src/main.js): exec(cmd, type, filename, encoding) runs a shell *)
(* command through child_process.exec and converts the captured stdout     *)
(* into a string, a Buffer, a Readable or a stream holding one Vinyl file; *)
(* exel(cmd, ...) does the same for a binary under node_modules/.bin.      *)
(*                                                                         *)
(* Text is a sequence of code points, a Buffer a sequence of bytes.  A     *)
(* path is a record [abs, segs]; a command is the sequence of the string   *)
(* pieces that the template literal concatenates.                          *)
(***************************************************************************)
EXTENDS Integers, Sequences, FiniteSets, TLC

VARIABLES
    platform,   \* process.platform of the host
    pc,         \* per call: "idle", "running" (execute invoked), "done" (callback returned or threw)
    args,       \* per call: the arguments the caller passed
    invoked,    \* per call: the invocations of child_process.exec, in order
    outcome,    \* per call: (err, stdout, stderr) handed to the callback
    resolved,   \* per call: the values passed to res, in order
    rejected,   \* per call: the errors passed to rej, in order
    uncaught,   \* per call: TRUE when the callback threw
    logged,     \* per call: the texts written with console.log, in order
    exited      \* TRUE when the Node process has exited on an uncaught exception

vars == <<platform, pc, args, invoked, outcome, resolved, rejected, uncaught, logged,
          exited>>

----------------------------------------------------------------------------
(* Bounds *)

MaxLen == 3

MaxCalls == 2

----------------------------------------------------------------------------
(* Text, bytes and String.prototype.trim *)

\* line feed, space and U+00E9: two kinds of whitespace and one non-ASCII letter
Alphabet == {10, 32, 233}

Texts == UNION {[1..n -> Alphabet] : n \in 0..MaxLen}

\* WhiteSpace and LineTerminator code points of ECMAScript, as trim() uses them
IsWhitespace(c) ==
    c \in ({9, 10, 11, 12, 13, 32, 160, 5760, 8232, 8233, 8239, 8287, 12288, 65279}
             \cup (8192..8202))

RECURSIVE TrimStart(_)
TrimStart(s) ==
    IF s = <<>> THEN <<>>
    ELSE IF IsWhitespace(Head(s)) THEN TrimStart(Tail(s))
    ELSE s

RECURSIVE TrimEnd(_)
TrimEnd(s) ==
    IF s = <<>> THEN <<>>
    ELSE IF IsWhitespace(s[Len(s)]) THEN TrimEnd(SubSeq(s, 1, Len(s) - 1))
    ELSE s

\* a trim that strips the end only
TrimEndOnly(s) == TrimEnd(s)

\* stdout.toString().trim(), line 24; toString of a string is that string
Trim(s) == TrimEnd(TrimStart(s))

\* UTF-8 bytes of one code point below U+0800
Utf8Bytes(c) ==
    IF c < 128 THEN <<c>>
    ELSE <<192 + (c \div 64), 128 + (c % 64)>>

RECURSIVE Utf8Encode(_)
Utf8Encode(s) ==
    IF s = <<>> THEN <<>>
    ELSE Utf8Bytes(Head(s)) \o Utf8Encode(Tail(s))

\* latin1 keeps the low byte of each code unit
Latin1Encode(s) == [i \in 1..Len(s) |-> s[i] % 256]

KnownEncodings == {"utf8", "latin1"}

\* Buffer.from(string, encoding): an encoding that is not a string (or is "")
\* means utf8, an unknown encoding name throws ERR_UNKNOWN_ENCODING
BufferFrom(str, encoding) ==
    IF encoding.form # "string" \/ encoding.name = ""
      THEN [threw |-> FALSE, bytes |-> Utf8Encode(str)]
    ELSE IF encoding.name \notin KnownEncodings
      THEN [threw |-> TRUE, bytes |-> <<>>]
    ELSE IF encoding.name = "latin1"
      THEN [threw |-> FALSE, bytes |-> Latin1Encode(str)]
    ELSE [threw |-> FALSE, bytes |-> Utf8Encode(str)]

----------------------------------------------------------------------------
(* Paths *)

Cwd == [abs |-> TRUE, segs |-> <<"home", "proj">>]

NoPath == [abs |-> FALSE, segs |-> <<>>]

\* !filename: undefined, null and "" are all the absent file name
IsAbsent(filename) == filename.segs = <<>> /\ ~filename.abs

\* path.basename: the last segment, as a relative path
Basename(p) ==
    IF p.segs = <<>> THEN NoPath
    ELSE [abs |-> FALSE, segs |-> <<p.segs[Len(p.segs)]>>]

\* path.resolve of one argument: an absolute path stays, a relative one is
\* joined onto process.cwd()
Resolve(p) ==
    IF p.abs THEN p
    ELSE [abs |-> TRUE, segs |-> Cwd.segs \o p.segs]

\* line 36: path.resolve(path.basename(filename))
VinylPath(filename) == Resolve(Basename(filename))

----------------------------------------------------------------------------
(* The arguments a caller can pass *)

Calls == {1}

\* calls in flight at once
ConcurrentCalls == 1..MaxCalls

Platforms == {"linux", "win32"}

\* the type argument: omitted, the four documented kinds, and an unknown one
Types == {"undefined", "string", "buffer", "stream", "vinyl", "xml"}

Filenames ==
    { NoPath,
      [abs |-> FALSE, segs |-> <<"out.txt">>],
      [abs |-> FALSE, segs |-> <<"docs", "index.html">>],
      [abs |-> TRUE,  segs |-> <<"tmp", "out.txt">>] }

\* the fourth argument: omitted, an encoding name, or an options object
Undefined4 == [form |-> "undefined", name |-> "", cwd |-> "", timeout |-> 0, maxBuffer |-> 0]

Fourths ==
    { Undefined4,
      [form |-> "string", name |-> "latin1", cwd |-> "", timeout |-> 0, maxBuffer |-> 0],
      [form |-> "string", name |-> "bogus",  cwd |-> "", timeout |-> 0, maxBuffer |-> 0],
      [form |-> "object", name |-> "", cwd |-> "/work", timeout |-> 5000, maxBuffer |-> 1024] }

\* command strings, as the pieces a template literal concatenates
Commands == { <<"ls">>, <<"cat f">> }

BinNames == { <<"eslint">> }

\* njfs root(): the project root
Root == "/home/proj"

\* why child_process.exec reports an error
FailureReasons == {"exit", "signal", "timeout", "aborted", "maxBuffer"}

Stderrs == { <<>>, <<233>> }

NoArgs == [fn |-> "none", cmd |-> <<>>, type |-> "undefined", filename |-> NoPath,
           fourth |-> Undefined4]

NoOutcome == [err |-> {}, stdout |-> <<>>, stderr |-> <<>>]

----------------------------------------------------------------------------
(* The callback of execute, lines 11-50 *)

\* line 21: encoding = encoding || 'utf8'
EffectiveEncoding(fourth) ==
    IF fourth.form = "undefined" \/ (fourth.form = "string" /\ fourth.name = "")
      THEN [fourth EXCEPT !.form = "string", !.name = "utf8"]
      ELSE fourth

\* a resolved value: its JavaScript class, its payload and, for the Vinyl
\* file in an object stream, the file's path
Value(class, data, path) == [class |-> class, data |-> data, path |-> path]

\* a default branch that trims like the 'string' branch
DefaultOutputTrimmed(stdout) == Trim(stdout)

\* line 45: output = stdout
DefaultOutput(stdout) == stdout

\* lines 23-47: the switch on type; threw is an exception out of the callback
Convert(type, stdout, filename, fourth) ==
    LET encoding == EffectiveEncoding(fourth)
        buf      == BufferFrom(stdout, encoding)
    IN  CASE type = "string" ->
               [threw |-> FALSE, value |-> Value("string", Trim(stdout), NoPath)]
          [] type = "buffer" ->
               [threw |-> buf.threw, value |-> Value("Buffer", buf.bytes, NoPath)]
          [] type = "stream" ->
               [threw |-> buf.threw, value |-> Value("Readable", buf.bytes, NoPath)]
          [] type = "vinyl" ->
               [threw |-> buf.threw,
                value |-> Value("ObjectStream", buf.bytes, VinylPath(filename))]
          [] OTHER ->
               [threw |-> FALSE, value |-> Value("string", DefaultOutput(stdout), NoPath)]

\* line 14: rej(err || 'no file name'); err is the error object of
\* child_process.exec as it came, a bare string stands for the missing name
Rejection(err, stdout, stderr) ==
    IF err # {}
      THEN [name |-> "Error", reason |-> (CHOOSE r \in err : TRUE),
            stdout |-> {}, stderr |-> {}]
      ELSE [name |-> "no file name", reason |-> "none", stdout |-> {}, stderr |-> {}]

\* line 13: the condition of the early return
Rejects(err, type, filename) == err # {} \/ (type = "vinyl" /\ IsAbsent(filename))

----------------------------------------------------------------------------
(* Actions *)

\* before any call, for the calls of one process
InitOf(calls) ==
    /\ platform \in Platforms
    /\ pc = [c \in calls |-> "idle"]
    /\ args = [c \in calls |-> NoArgs]
    /\ invoked = [c \in calls |-> <<>>]
    /\ outcome = [c \in calls |-> NoOutcome]
    /\ resolved = [c \in calls |-> <<>>]
    /\ rejected = [c \in calls |-> <<>>]
    /\ uncaught = [c \in calls |-> FALSE]
    /\ logged = [c \in calls |-> <<>>]
    /\ exited = FALSE

Init == InitOf(Calls)

\* line 11: execute(cmd, callback): the command, and no options at all
Invocation(cmd) == [cmd |-> cmd, options |-> {}]

\* lines 10-11: exec(cmd, type, filename, encoding), its arguments drawn from
\* the given sets; the Promise executor runs at once and calls
\* execute(cmd, callback)
ExecOf(c, cmds, types, filenames, fourths) ==
    /\ ~exited
    /\ pc[c] = "idle"
    /\ \E cmd \in cmds, type \in types, filename \in filenames, fourth \in fourths :
         /\ args' = [args EXCEPT ![c] = [fn |-> "exec", cmd |-> cmd, type |-> type,
                                          filename |-> filename, fourth |-> fourth]]
         /\ invoked' = [invoked EXCEPT ![c] = Append(@, Invocation(cmd))]
    /\ pc' = [pc EXCEPT ![c] = "running"]
    /\ UNCHANGED <<platform, outcome, resolved, rejected, uncaught, logged, exited>>

Exec(c) == ExecOf(c, Commands, Types, Filenames, Fourths)

\* line 53: the command is `${root()}/node_modules/.bin/${cmd}`
LocalCommand(cmd) == <<Root, "/node_modules/.bin/">> \o cmd

\* line 53: exel(cmd, type, filename, encoding) is exec of the local command
\* with the other three arguments as they came
ExelOf(c, bins, types, filenames, fourths) ==
    /\ ~exited
    /\ pc[c] = "idle"
    /\ \E cmd \in bins, type \in types, filename \in filenames, fourth \in fourths :
         /\ args' = [args EXCEPT ![c] = [fn |-> "exel", cmd |-> cmd, type |-> type,
                                          filename |-> filename, fourth |-> fourth]]
         /\ invoked' = [invoked EXCEPT ![c] = Append(@, Invocation(LocalCommand(cmd)))]
    /\ pc' = [pc EXCEPT ![c] = "running"]
    /\ UNCHANGED <<platform, outcome, resolved, rejected, uncaught, logged, exited>>

Exel(c) == ExelOf(c, BinNames, Types, Filenames, Fourths)

\* what child_process.exec can report: no error, or an error for one reason
Errs == {{}} \cup {{r} : r \in FailureReasons}

\* lines 11-50: child_process.exec calls back once with (err, stdout, stderr),
\* drawn from the given sets.  Nothing catches an exception thrown by the
\* conversion (lines 23-47): it leaves the callback uncaught, and the process
\* exits unless the host has installed an 'uncaughtException' handler.
CallbackOf(c, errs, stdouts, stderrs) ==
    /\ ~exited
    /\ pc[c] = "running"
    /\ \E err \in errs, stdout \in stdouts, stderr \in stderrs :
         LET a == args[c]
             conv == Convert(a.type, stdout, a.filename, a.fourth)
         IN  /\ outcome' = [outcome EXCEPT ![c] =
                               [err |-> err, stdout |-> stdout, stderr |-> stderr]]
             /\ IF Rejects(err, a.type, a.filename)
                  THEN /\ rejected' = [rejected EXCEPT ![c] =
                                          Append(@, Rejection(err, stdout, stderr))]
                       /\ UNCHANGED <<resolved, uncaught, logged, exited>>
                  ELSE /\ logged' = [logged EXCEPT ![c] = Append(@, stderr)]
                       /\ IF conv.threw
                            THEN /\ uncaught' = [uncaught EXCEPT ![c] = TRUE]
                                 /\ exited' \in BOOLEAN
                                 /\ UNCHANGED resolved
                            ELSE /\ resolved' = [resolved EXCEPT ![c] = Append(@, conv.value)]
                                 /\ UNCHANGED <<uncaught, exited>>
                       /\ UNCHANGED rejected
    /\ pc' = [pc EXCEPT ![c] = "done"]
    /\ UNCHANGED <<platform, args, invoked>>

Callback(c) == CallbackOf(c, Errs, Texts, Stderrs)

Next == \E c \in Calls : Exec(c) \/ Exel(c) \/ Callback(c)

Spec == Init /\ [][Next]_vars

----------------------------------------------------------------------------
(* Several calls in flight at once, in one process *)

ConcurrentTypes == {"string", "buffer"}

ConcurrentFilenames == {NoPath}

ConcurrentFourths ==
    { Undefined4,
      [form |-> "string", name |-> "bogus", cwd |-> "", timeout |-> 0, maxBuffer |-> 0] }

ConcurrentErrs == {{}, {"exit"}}

ConcurrentStdouts == { <<233>>, <<32, 233>> }

ConcurrentStderrs == { <<>> }

InitConcurrent == InitOf(ConcurrentCalls)

\* any call may start while others are in flight, and the subprocesses
\* complete in any order
NextConcurrent ==
    \E c \in ConcurrentCalls :
        \/ ExecOf(c, Commands, ConcurrentTypes, ConcurrentFilenames, ConcurrentFourths)
        \/ ExelOf(c, BinNames, ConcurrentTypes, ConcurrentFilenames, ConcurrentFourths)
        \/ CallbackOf(c, ConcurrentErrs, ConcurrentStdouts, ConcurrentStderrs)

SpecConcurrent == InitConcurrent /\ [][NextConcurrent]_vars

----------------------------------------------------------------------------
(* Vocabulary of the claims *)

Called(c) == pc[c] # "idle"

Done(c) == pc[c] = "done"

Succeeded(c) == Done(c) /\ outcome[c].err = {}

Failed(c) == Done(c) /\ outcome[c].err # {}

Settlements(c) == Len(resolved[c]) + Len(rejected[c])

Kinds == {"string", "buffer", "stream", "vinyl"}

\* the JavaScript class that carries each output kind
ClassOfKind(kind) ==
    CASE kind = "string" -> "string"
      [] kind = "buffer" -> "Buffer"
      [] kind = "stream" -> "Readable"
      [] kind = "vinyl"  -> "ObjectStream"

\* t is s without its leading and trailing whitespace, and nothing else changed
IsTrimOf(t, s) ==
    /\ t = <<>> \/ (~IsWhitespace(t[1]) /\ ~IsWhitespace(t[Len(t)]))
    /\ \E i \in 0..Len(s) :
         /\ i + Len(t) <= Len(s)
         /\ SubSeq(s, i + 1, i + Len(t)) = t
         /\ \A k \in 1..i : IsWhitespace(s[k])
         /\ \A k \in (i + Len(t) + 1)..Len(s) : IsWhitespace(s[k])

----------------------------------------------------------------------------
(* C1: a call that asks for a virtual file and gives no file name fails    *)
(* with the missing-file-name error and never invokes the subprocess       *)
(* facility, whatever the command would have done.                         *)
C1_MissingFilenameBeforeSubprocess ==
    \A c \in Calls :
        (Called(c) /\ args[c].type = "vinyl" /\ IsAbsent(args[c].filename)) =>
            /\ invoked[c] = <<>>
            /\ Done(c) => /\ resolved[c] = <<>>
                          /\ Len(rejected[c]) = 1
                          /\ rejected[c][1].name = "no file name"

(* C2: with an output kind outside the four kinds and a subprocess that    *)
(* succeeded, the call is rejected as an unsupported kind and never        *)
(* resolves with a value.                                                  *)
C2_UnknownKindRejected ==
    \A c \in Calls :
        (Succeeded(c) /\ args[c].type \notin Kinds \cup {"undefined"}) =>
            /\ resolved[c] = <<>>
            /\ Len(rejected[c]) = 1
            /\ rejected[c][1].name = "Unsupported output type"

(* C3: when the subprocess facility reports a failure the call is rejected *)
(* with an error that carries the captured stdout text and the captured    *)
(* stderr text, for every output kind, and nothing is converted.           *)
C3_FailureCarriesOutput ==
    \A c \in Calls :
        Failed(c) =>
            /\ resolved[c] = <<>>
            /\ ~uncaught[c]
            /\ Len(rejected[c]) = 1
            /\ rejected[c][1].name = "Error"
            /\ rejected[c][1].stdout = {outcome[c].stdout}
            /\ rejected[c][1].stderr = {outcome[c].stderr}

(* C4: every call settles exactly once: when its callback has run, on any  *)
(* path, the promise has been resolved once or rejected once, never both   *)
(* and never neither.                                                      *)
C4_SettlesExactlyOnce ==
    \A c \in Calls : Done(c) => Settlements(c) = 1

C6_TextIsTrimmed ==
    \A c \in Calls :
        (Succeeded(c) /\ args[c].type = "string") =>
            /\ Len(resolved[c]) = 1
            /\ rejected[c] = <<>>
            /\ resolved[c][1].class = "string"
            /\ IsTrimOf(resolved[c][1].data, outcome[c].stdout)

\* stdout had whitespace on both sides of a letter and the letter was returned
C6_Witness ==
    \E c \in Calls :
        /\ Succeeded(c)
        /\ args[c].type = "string"
        /\ Len(outcome[c].stdout) = MaxLen
        /\ IsWhitespace(outcome[c].stdout[1])
        /\ IsWhitespace(outcome[c].stdout[MaxLen])
        /\ Len(resolved[c]) = 1
        /\ resolved[c][1].data # <<>>
        /\ Len(resolved[c][1].data) < MaxLen

\* the path the claim gives the virtual file
ClaimedVinylPath(filename) ==
    IF filename.abs THEN filename
    ELSE [abs |-> TRUE, segs |-> Cwd.segs \o filename.segs]

(* C7: for a virtual file with a file name and a successful subprocess,    *)
(* the file's path is absolute: the file name itself when it is absolute,  *)
(* else the file name with its directories joined onto the working         *)
(* directory.  (The claim's path; its sentence on the contents is not      *)
(* needed to refute it.)                                                   *)
C7_VinylPathKeepsDirectories ==
    \A c \in Calls :
        (Succeeded(c) /\ args[c].type = "vinyl" /\ ~IsAbsent(args[c].filename)
           /\ resolved[c] # <<>>) =>
            /\ resolved[c][1].path.abs
            /\ resolved[c][1].path = ClaimedVinylPath(args[c].filename)

\* the options the claim has the subprocess facility receive
ClaimedOptions(fourth) ==
    IF fourth.form = "object"
      THEN [cwd |-> fourth.cwd, timeout |-> fourth.timeout, maxBuffer |-> fourth.maxBuffer]
      ELSE [cwd |-> "", timeout |-> 0, maxBuffer |-> 10485760]

(* C8: a call that reaches the subprocess facility invokes it exactly once *)
(* with the caller's command and with the caller's working directory,      *)
(* timeout and output limit unchanged (timeout 0 and 10,485,760 bytes when *)
(* not given).                                                             *)
C8_OptionsPassedThrough ==
    \A c \in Calls :
        (Called(c) /\ args[c].fn = "exec") =>
            /\ Len(invoked[c]) = 1
            /\ invoked[c][1].cmd = args[c].cmd
            /\ invoked[c][1].options = {ClaimedOptions(args[c].fourth)}

\* the command the claim has runLocal pass on
ClaimedLocalCommand(os, bin) ==
    IF os = "win32"
      THEN <<"\"", Root, "/node_modules/.bin/">> \o bin \o <<".cmd", "\"">>
      ELSE <<Root, "/node_modules/.bin/">> \o bin

(* C9: runLocal of a binary is run of the binary's path under the project  *)
(* root's local executable directory, with the platform's suffix and       *)
(* quotes where the platform needs them; kind, file name and options       *)
(* reach run unchanged and the outcome is that run's outcome.              *)
C9_LocalCommandResolved ==
    \A c \in Calls :
        (Called(c) /\ args[c].fn = "exel") =>
            /\ Len(invoked[c]) = 1
            /\ invoked[c][1].cmd = ClaimedLocalCommand(platform, args[c].cmd)
            /\ (Done(c) /\ ~Rejects(outcome[c].err, args[c].type, args[c].filename)
                  /\ ~uncaught[c]) =>
                  resolved[c] = <<Convert(args[c].type, outcome[c].stdout,
                                          args[c].filename, args[c].fourth).value>>

(* C10: on a successful run stderr never makes the call fail and never     *)
(* changes the resolved value, and a diagnostic is written if and only if  *)
(* the stderr text is not empty, and only on the success path.             *)
C10_DiagnosticIffStderr ==
    \A c \in Calls :
        Done(c) =>
            /\ Failed(c) => logged[c] = <<>>
            /\ (Succeeded(c) /\ ~(args[c].type = "vinyl" /\ IsAbsent(args[c].filename))) =>
                  /\ rejected[c] = <<>>
                  /\ logged[c] # <<>> <=> outcome[c].stderr # <<>>
                  /\ \A i \in 1..Len(logged[c]) : logged[c][i] = outcome[c].stderr
                  /\ \A i \in 1..Len(resolved[c]) :
                        resolved[c][i] = Convert(args[c].type, outcome[c].stdout,
                                                 args[c].filename, args[c].fourth).value

\* the command a call hands to the subprocess facility
OwnCommand(c) ==
    IF args[c].fn = "exel" THEN LocalCommand(args[c].cmd) ELSE args[c].cmd

\* what a call with arguments a and subprocess outcome o resolves with and
\* is rejected with when it is the only call
AloneResolved(a, o) ==
    IF Rejects(o.err, a.type, a.filename)
         \/ Convert(a.type, o.stdout, a.filename, a.fourth).threw
      THEN <<>>
      ELSE <<Convert(a.type, o.stdout, a.filename, a.fourth).value>>

AloneRejected(a, o) ==
    IF Rejects(o.err, a.type, a.filename)
      THEN <<Rejection(o.err, o.stdout, o.stderr)>>
      ELSE <<>>

(* C11: calls in flight at once do not interfere: each call starts its own *)
(* subprocess, a call in flight can still receive its subprocess's outcome *)
(* whatever the other calls did, as it can when it runs alone, and what it *)
(* resolves or is rejected with is what its own arguments and its own      *)
(* subprocess outcome give when it runs alone.                             *)
C11_CallsDoNotInterfere ==
    \A c \in DOMAIN pc :
        /\ Called(c) => invoked[c] = <<Invocation(OwnCommand(c))>>
        /\ pc[c] = "running" => ~exited
        /\ Done(c) => /\ resolved[c] = AloneResolved(args[c], outcome[c])
                      /\ rejected[c] = AloneRejected(args[c], outcome[c])

====
